---- MODULE Spec2Model ----
(***************************************************************************)
(* Model of streamlit_app.py: the Streamlit script is re-run top to bottom *)
(* on every rerun of a browser session.  One run is a render cycle; pc is  *)
(* the script's position.  st.session_state and st.query_params persist    *)
(* from one cycle of a session to the next; everything else is per cycle.  *)
(***************************************************************************)
EXTENDS Integers, Sequences, FiniteSets, TLC

\* ---------------------------------------------------------------- values
\* Python's None, and the marker of a key that st.session_state does not hold.
NONE == "None"
ABSENT == "<absent>"

\* Opaque token strings the identity provider can issue.
AccessTokens == {"a1", "a2"}
RefreshTokens == {"r1", "r2"}

\* Python truthiness of the values the model uses (None and "" are falsy).
Truthy(x) == x \notin {NONE, ABSENT, ""}

\* st.session_state.get(key): None when the key is absent.
Get(ss, key) == IF ss[key] = ABSENT THEN NONE ELSE ss[key]

NoSession == [access_token |-> ABSENT, refresh_token |-> ABSENT]

\* st.query_params of a page load: the keys the script reads.
QueryParams ==
    [login : {NONE, "true", "false"}, code : {NONE, "c1"}, state : {NONE, "s1"}]

NoParams == [login |-> NONE, code |-> NONE, state |-> NONE]

\* Outcome of one HTTP call to the provider: requests.post / response.json()
\* either returns or raises.
CallOutcomes == {"ok", "raise"}

\* prepare(realm, nonce) -> {redirect, nonce}, either key possibly missing.
PrepareResponses == [redirect : {NONE, "idp_url"}, nonce : {NONE, "nonce"}]

\* authenticate(...) -> {access_token, refresh_token} | {}, either possibly missing.
AuthenticateResponses ==
    [access_token : AccessTokens \cup {NONE}, refresh_token : RefreshTokens \cup {NONE}]

\* refresh(refresh_token) -> {access_token, refresh_token} | {error}.
RefreshResponses ==
    [error : {NONE}, access_token : AccessTokens, refresh_token : RefreshTokens]
    \cup {[error |-> "invalid_grant", access_token |-> NONE, refresh_token |-> NONE]}

NoPrepare == [redirect |-> NONE, nonce |-> NONE]
NoUser == [access_token |-> NONE, refresh_token |-> NONE]
NoRefresh == [error |-> NONE, access_token |-> NONE, refresh_token |-> NONE]

\* ---------------------------------------------------------------- filters
\* Values st.date_input can return (a date; day of the month stands for it).
MaxDay == 2
Dates == 1..MaxDay

\* Values st.pills can return: one of the options, or None when deselected.
Pills == {"event_retail", "mtx_club_hotel"}

TIME_ZONE == "Australia/Adelaide"

\* The date argument of configure_filters: <<>> stands for None,
\* <<"date", d>> for the datetime.date d, <<"str", s>> for the string s.
NoDate == <<>>
DateOf(d) == <<"date", d>>
DATE_SENTINEL == <<"str", "today/d">>

\* Mutant of RangeClause: the window runs from the date to today.
RangeClause_until_today(date) ==
    [range |-> [field |-> "@timestamp", gte |-> date, lte |-> DATE_SENTINEL,
                time_zone |-> TIME_ZONE]]

\* The range clause configure_filters appends for a date.
RangeClause(date) ==
    [range |-> [field |-> "@timestamp", gte |-> date, lte |-> date,
                time_zone |-> TIME_ZONE]]

TermClause(reporting_group) ==
    [term |-> [field |-> "reporting.reporting_group", value |-> reporting_group]]

\* Mutant of configure_filters: `is not None` for the truthiness test, so an
\* empty reporting group gets an empty-string match.
configure_filters_not_none(date, reporting_group) ==
    LET d == IF Len(date) = 0 THEN DATE_SENTINEL ELSE date
        filters0 == <<RangeClause(d)>>
        filters1 == IF reporting_group # NONE
                    THEN Append(filters0, TermClause(reporting_group))
                    ELSE filters0
    IN [bool |-> [must |-> filters1]]

\* configure_filters(date=None, reporting_group=None)
configure_filters(date, reporting_group) ==
    LET d == IF Len(date) = 0 THEN DATE_SENTINEL ELSE date
        filters0 == <<RangeClause(d)>>
        filters1 == IF Truthy(reporting_group)
                    THEN Append(filters0, TermClause(reporting_group))
                    ELSE filters0
    IN [bool |-> [must |-> filters1]]

NoFilters == [bool |-> [must |-> <<>>]]

\* ---------------------------------------------------------------- state
VARIABLES
    session_state,   \* st.session_state: access_token, refresh_token
    query_params,    \* st.query_params
    pc,              \* position of the script in the current render cycle
    clicked,         \* st.button("Logout") returns True in this cycle
    login_response,  \* login() result of this cycle
    user,            \* authorize() result of this cycle
    conn,            \* access token the current ElasticConnection carries
    info,            \* conn.get_info(): token probed with, and the result
    refresh_res,     \* refresh() result of this cycle
    refresh_outcome, \* "none", "ok", "error" (error field), "exception"
    calls,           \* provider calls of this cycle, counted per endpoint
    logout_calls,    \* payloads of the logout() calls of this cycle, in order
    emitted,         \* elements the cycle has sent to the page
    date_filter,     \* st.date_input value of this cycle
    reporting_group, \* st.pills value of this cycle
    filters,         \* configure_filters(reporting_group, date) of this cycle
    queries,         \* conn.query calls of this cycle, in order
    res,             \* result of the latest conn.query
    rendered,        \* what each metric function has drawn
    raised_at        \* where an uncaught exception ended the cycle, or None

vars == <<session_state, query_params, pc, clicked, login_response, user, conn,
          info, refresh_res, refresh_outcome, calls, logout_calls, emitted,
          date_filter, reporting_group, filters, queries, res, rendered,
          raised_at>>

Metrics == <<"total_sales", "highest_hour", "visitation", "active_terminals",
             "sales_bar_chart", "sales_by_location", "sales_by_product">>

MetricNames == {Metrics[i] : i \in DOMAIN Metrics}

EndPcs == {"done", "stopped", "error"}

NoCalls == [prepare |-> 0, authenticate |-> 0, refresh |-> 0, logout_user |-> 0]
NoInfo == [token |-> NONE, result |-> "none"]
NoRes == [metric |-> NONE, value |-> [frame |-> FALSE, rows |-> <<>>]]
NoRendered == [m \in MetricNames |-> <<>>]

\* The per-cycle part of the state when a run of the script starts.
CycleStart(click) ==
    /\ clicked = click
    /\ login_response = NoPrepare
    /\ user = NoUser
    /\ conn = NONE
    /\ info = NoInfo
    /\ refresh_res = NoRefresh
    /\ refresh_outcome = "none"
    /\ calls = NoCalls
    /\ logout_calls = <<>>
    /\ emitted = {}
    /\ date_filter = NoDate
    /\ reporting_group = NONE
    /\ filters = NoFilters
    /\ queries = <<>>
    /\ res = NoRes
    /\ rendered = NoRendered
    /\ raised_at = NONE

\* A page load opens a session with an empty session state and the URL's
\* query parameters.
Init ==
    /\ session_state = NoSession
    /\ query_params \in QueryParams
    /\ pc = "begin_login"
    /\ CycleStart(FALSE)

\* The per-cycle variables the steps before the page body leave alone.
page_vars == <<clicked, date_filter, reporting_group, filters, queries, res,
               rendered>>

\* ---------------------------------------------------------------- login
\* The test that guards login(): no token in the session and no login
\* parameter in the URL.
NeedsLogin(ss, qp) ==
    /\ ~Truthy(Get(ss, "access_token"))
    /\ ~Truthy(Get(ss, "refresh_token"))
    /\ ~Truthy(qp.login)

\* Mutant of PrepareShown: the nonce of the response is not looked at.
PrepareShown_redirect_only(r) ==
    IF Truthy(r.redirect) THEN "redirect" ELSE "diagnostic"

\* What the begin-login block shows for a prepare response.
PrepareShown(r) ==
    IF Truthy(r.redirect) /\ Truthy(r.nonce) THEN "redirect" ELSE "diagnostic"

\* The begin-login block: login() and the redirect or the diagnostic.
BeginLogin ==
    /\ pc = "begin_login"
    /\ IF NeedsLogin(session_state, query_params)
       THEN \E o \in CallOutcomes, r \in PrepareResponses :
              /\ calls' = [calls EXCEPT !.prepare = @ + 1]
              /\ IF o = "raise"
                 THEN /\ pc' = "error"
                      /\ raised_at' = "begin_login"
                      /\ UNCHANGED <<login_response, emitted>>
                 ELSE /\ login_response' = r
                      /\ emitted' = emitted \cup {PrepareShown(r)}
                      /\ pc' = "callback"
                      /\ UNCHANGED raised_at
       ELSE /\ pc' = "callback"
            /\ UNCHANGED <<calls, login_response, emitted, raised_at>>
    /\ UNCHANGED <<session_state, query_params, user, conn, info, refresh_res,
                   refresh_outcome, logout_calls>>
    /\ UNCHANGED page_vars

\* Mutant of StoreUser: `or` for `and`, so a response with one token is stored.
StoreUser_either(ss, u) ==
    IF Truthy(u.access_token) \/ Truthy(u.refresh_token)
    THEN [access_token |-> u.access_token, refresh_token |-> u.refresh_token]
    ELSE ss

\* The token store of the login callback: both tokens or nothing.
StoreUser(ss, u) ==
    IF Truthy(u.access_token) /\ Truthy(u.refresh_token)
    THEN [access_token |-> u.access_token, refresh_token |-> u.refresh_token]
    ELSE ss

\* The test that guards authorize(): login=true with a code and a state.
IsCallback(qp) == qp.login = "true" /\ Truthy(qp.code) /\ Truthy(qp.state)

\* st.query_params.clear() as the callback block places it.
ClearParams(qp) == NoParams

\* The login callback: authorize(), the token store, the parameter clear.
Callback ==
    /\ pc = "callback"
    /\ IF IsCallback(query_params)
       THEN \E o \in CallOutcomes, u \in AuthenticateResponses :
              /\ calls' = [calls EXCEPT !.authenticate = @ + 1]
              /\ IF o = "raise"
                 THEN /\ pc' = "error"
                      /\ raised_at' = "callback"
                      /\ UNCHANGED <<user, session_state, query_params>>
                 ELSE /\ user' = u
                      /\ session_state' = StoreUser(session_state, u)
                      /\ query_params' = ClearParams(query_params)
                      /\ pc' = "gate"
                      /\ UNCHANGED raised_at
       ELSE /\ pc' = "gate"
            /\ UNCHANGED <<calls, user, session_state, query_params, raised_at>>
    /\ UNCHANGED <<login_response, conn, info, refresh_res, refresh_outcome,
                   logout_calls, emitted>>
    /\ UNCHANGED page_vars

\* The session gate's test: st.stop() when the session holds neither token.
GateStops(ss) ==
    ~Truthy(Get(ss, "access_token")) /\ ~Truthy(Get(ss, "refresh_token"))

SessionGate ==
    /\ pc = "gate"
    /\ pc' = IF GateStops(session_state) THEN "stopped" ELSE "connect"
    /\ UNCHANGED <<session_state, query_params, login_response, user, conn, info,
                   refresh_res, refresh_outcome, calls, logout_calls, emitted,
                   raised_at>>
    /\ UNCHANGED page_vars

\* conn = st.connection(..., access_token=st.session_state["access_token"]):
\* the subscript raises KeyError when the key is absent.
Connect ==
    /\ pc = "connect"
    /\ IF session_state.access_token = ABSENT
       THEN pc' = "error" /\ raised_at' = "connect" /\ UNCHANGED conn
       ELSE pc' = "ensure_live" /\ conn' = session_state.access_token
                                /\ UNCHANGED raised_at
    /\ UNCHANGED <<session_state, query_params, login_response, user, info,
                   refresh_res, refresh_outcome, calls, logout_calls, emitted>>
    /\ UNCHANGED page_vars

\* ---------------------------------------------------------------- logout
\* The payload logout() is called with.
LogoutArgs(ss) ==
    [token |-> Get(ss, "access_token"), refresh_token |-> Get(ss, "refresh_token")]

\* Mutant of logout_user: the refresh token is not deleted.
logout_user_half(ss, o) ==
    IF o = "raise" \/ ss.access_token = ABSENT
    THEN [ss |-> ss, raised |-> TRUE, nav |-> FALSE]
    ELSE [ss |-> [ss EXCEPT !.access_token = ABSENT], raised |-> FALSE,
          nav |-> TRUE]

\* logout_user(), given whether its logout() call returns or raises: the
\* session state it leaves, whether it raised, whether it emitted the
\* navigation to LOGOUT_URL.  del raises KeyError on an absent key.
logout_user(ss, o) ==
    IF o = "raise" \/ ss.access_token = ABSENT
    THEN [ss |-> ss, raised |-> TRUE, nav |-> FALSE]
    ELSE IF ss.refresh_token = ABSENT
    THEN [ss |-> [ss EXCEPT !.access_token = ABSENT], raised |-> TRUE, nav |-> FALSE]
    ELSE [ss |-> NoSession, raised |-> FALSE, nav |-> TRUE]

\* ---------------------------------------------------------------- refresh
\* How a refresh() call ended: it raised, returned an error field, or
\* returned a token pair.
RefreshOutcome(o, rr) ==
    IF o = "raise" THEN "exception"
    ELSE IF Truthy(rr.error) THEN "error" ELSE "ok"

\* Mutant of Rebind: the connection built before the refresh is kept.
Rebind_stale(cn, stored) == cn

\* The token the connection carries after the refresh block has stored the
\* response: conn is bound again, with st.session_state["access_token"].
Rebind(cn, stored) == stored.access_token

\* The refresh block after a failed probe.  o, rr: how refresh() ended;
\* lo1, lo2: how the first and the second logout() call of the block end.
\* The bare except catches whatever the try body raises, logout_user()
\* included, and calls logout_user() again.
RefreshBlock(ss, cn, o, rr, lo1, lo2) ==
    LET stored == [access_token |-> rr.access_token,
                   refresh_token |-> rr.refresh_token]
        Handler(s, lo, before, runs, nav) ==
            LET h == logout_user(s, lo)
            IN [ss |-> h.ss, conn |-> cn, refreshes |-> 1,
                logouts |-> Append(before, LogoutArgs(s)), runs |-> runs + 1,
                nav |-> nav \/ h.nav, raised |-> h.raised]
        first == logout_user(ss, lo1)
    IN IF o = "raise"
       THEN Handler(ss, lo1, <<>>, 0, FALSE)
       ELSE IF Truthy(rr.error)
       THEN IF first.raised
            THEN Handler(first.ss, lo2, <<LogoutArgs(ss)>>, 1, first.nav)
            ELSE [ss |-> stored, conn |-> Rebind(cn, stored), refreshes |-> 1,
                  logouts |-> <<LogoutArgs(ss)>>, runs |-> 1,
                  nav |-> TRUE, raised |-> FALSE]
       ELSE [ss |-> stored, conn |-> Rebind(cn, stored), refreshes |-> 1,
             logouts |-> <<>>, runs |-> 0, nav |-> FALSE, raised |-> FALSE]

ProbeResults == {"ok", "fail"}

\* Mutant of ProbeFailed: the refresh block runs whatever the probe returned.
ProbeFailed_always(probe) == TRUE

\* `conn.get_info() is None`: get_info returns None when client.info() raises.
ProbeFailed(probe) == probe = "fail"

\* conn.get_info() and, when it returns None, the refresh block.
EnsureLive ==
    /\ pc = "ensure_live"
    /\ \E probe \in ProbeResults :
         /\ info' = [token |-> conn, result |-> probe]
         /\ IF ~ProbeFailed(probe)
            THEN /\ pc' = "settings"
                 /\ UNCHANGED <<session_state, conn, refresh_res, refresh_outcome,
                                calls, logout_calls, emitted, raised_at>>
            ELSE \E o \in CallOutcomes, rr \in RefreshResponses,
                    lo1 \in CallOutcomes, lo2 \in CallOutcomes :
                   LET b == RefreshBlock(session_state, conn, o, rr, lo1, lo2)
                   IN /\ session_state' = b.ss
                      /\ conn' = b.conn
                      /\ refresh_res' = IF o = "raise" THEN NoRefresh ELSE rr
                      /\ refresh_outcome' = RefreshOutcome(o, rr)
                      /\ calls' = [calls EXCEPT !.refresh = @ + b.refreshes,
                                                !.logout_user = @ + b.runs]
                      /\ logout_calls' = logout_calls \o b.logouts
                      /\ emitted' = emitted \cup
                                      (IF b.nav THEN {"logout_nav"} ELSE {})
                      /\ pc' = IF b.raised THEN "error" ELSE "settings"
                      /\ raised_at' = IF b.raised THEN "ensure_live" ELSE raised_at
    /\ UNCHANGED <<query_params, login_response, user>>
    /\ UNCHANGED page_vars

\* ---------------------------------------------------------------- settings
\* The body of `if st.button("Logout")`: logout(), then logout_user().
LogoutButton(ss, lo1, lo2) ==
    LET h == logout_user(ss, lo2)
    IN IF lo1 = "raise"
       THEN [ss |-> ss, logouts |-> <<LogoutArgs(ss)>>, runs |-> 0,
             nav |-> FALSE, raised |-> TRUE]
       ELSE [ss |-> h.ss, logouts |-> <<LogoutArgs(ss), LogoutArgs(ss)>>,
             runs |-> 1, nav |-> h.nav, raised |-> h.raised]

\* The settings popover: the Logout button and its handler.
Settings ==
    /\ pc = "settings"
    /\ IF clicked
       THEN \E lo1 \in CallOutcomes, lo2 \in CallOutcomes :
              LET b == LogoutButton(session_state, lo1, lo2)
              IN /\ session_state' = b.ss
                 /\ calls' = [calls EXCEPT !.logout_user = @ + b.runs]
                 /\ logout_calls' = logout_calls \o b.logouts
                 /\ emitted' = emitted \cup {"logout_button"} \cup
                                 (IF b.nav THEN {"logout_nav"} ELSE {})
                 /\ pc' = IF b.raised THEN "error" ELSE "filters"
                 /\ raised_at' = IF b.raised THEN "settings" ELSE raised_at
       ELSE /\ emitted' = emitted \cup {"logout_button"}
            /\ pc' = "filters"
            /\ UNCHANGED <<session_state, calls, logout_calls, raised_at>>
    /\ UNCHANGED <<query_params, login_response, user, conn, info, refresh_res,
                   refresh_outcome>>
    /\ UNCHANGED page_vars

\* The variables the page body leaves alone.
auth_vars == <<session_state, query_params, clicked, login_response, user, conn,
               info, refresh_res, refresh_outcome, calls, logout_calls, emitted,
               raised_at>>

\* ---------------------------------------------------------------- page body
\* The date and group widgets and filters = configure_filters(...).
BuildFilters ==
    /\ pc = "filters"
    /\ \E d \in Dates, g \in Pills \cup {NONE} :
         /\ date_filter' = DateOf(d)
         /\ reporting_group' = g
         /\ filters' = configure_filters(DateOf(d), g)
    /\ pc' = Metrics[1]
    /\ UNCHANGED <<queries, res, rendered>>
    /\ UNCHANGED auth_vars

\* A cell of a result row: <<>> is SQL null, <<v>> the value v.
Null == <<>>
Cell(v) == <<v>>

\* What the engine can answer to client.sql.query: an exception, or a
\* response that carries "columns" and "rows" or lacks them.
Raised(kind) == [kind |-> kind, wellformed |-> FALSE, rows |-> <<>>]
Response(wellformed, rows) == [kind |-> "response", wellformed |-> wellformed, rows |-> rows]

\* An ISO timestamp: the UTC hour of a parseable one, or an unparseable string.
Timestamp(hour) == [valid |-> TRUE, hour |-> hour]
BadTimestamp == [valid |-> FALSE, hour |-> 0]

\* Sample rows per metric, by column name.
SampleRows(m) ==
    CASE m = "total_sales" ->
           {[total_sales |-> c] : c \in {Null, Cell(0), Cell(5)}}
      [] m = "highest_hour" ->
           {[datetime |-> c] : c \in {Cell(Timestamp(3)), Cell(BadTimestamp)}}
      [] m = "visitation" ->
           {[entries |-> c] : c \in {Cell(0), Cell(5)}}
      [] m = "active_terminals" ->
           {[swiftpos_terminals |-> Cell(2), mashgin_terminals |-> Cell(1)]}
      [] m = "sales_bar_chart" ->
           {[datetime |-> Cell(t), sale_total |-> Cell(5)] :
              t \in {Timestamp(3), BadTimestamp}}
      [] m = "sales_by_location" ->
           {[Location |-> Cell("bar"), Active |-> Cell(1), Beverage |-> Cell(5),
             Food |-> Cell(0), Total |-> Cell(5)]}
      [] m = "sales_by_product" ->
           {[Item |-> Cell("beer"), QtySold |-> Cell(1), Total |-> Cell(5)]}

EngineOutcomes(m) ==
    {Raised("AuthenticationException"), Raised("Exception"),
     Response(FALSE, <<>>), Response(TRUE, <<>>)}
    \cup {Response(TRUE, <<r>>) : r \in SampleRows(m)}

\* pandas values: None, or a DataFrame of rows.
None == [frame |-> FALSE, rows |-> <<>>]
DataFrame(rows) == [frame |-> TRUE, rows |-> rows]

\* Mutant of query: only AuthenticationException is caught.
query_uncaught(out) ==
    IF out.kind = "response" /\ out.wellformed
    THEN [raised |-> FALSE, value |-> DataFrame(out.rows)]
    ELSE [raised |-> out.kind # "AuthenticationException", value |-> None]

\* ElasticConnection.query: the DataFrame of the response, None on any
\* exception (an authentication failure, an engine error, a missing key).
query(out) ==
    IF out.kind = "response" /\ out.wellformed
    THEN [raised |-> FALSE, value |-> DataFrame(out.rows)]
    ELSE [raised |-> FALSE, value |-> None]

\* res.loc[0, column] succeeds on a DataFrame with a first row.
HasLoc(df) == df.frame /\ Len(df.rows) > 0

Empty(df) == Len(df.rows) = 0

\* "%-I %p" of a UTC hour in Australia/Adelaide (UTC+9:30; daylight saving
\* is not modelled).
AdelaideHour(h) == ((h * 60 + 570) \div 60) % 24
HourLabel(h) ==
    LET a == AdelaideHour(h)
    IN <<ToString(IF a % 12 = 0 THEN 12 ELSE a % 12), " ",
         IF a < 12 THEN "AM" ELSE "PM">>

\* Mutant of PLACEHOLDER: a metric without data is drawn as 0.
PLACEHOLDER_zero == <<"0">>

\* The value a scalar metric shows when its try block raises.
PLACEHOLDER == <<"-">>
NOTHING == <<>>

\* What each metric function draws for the value conn.query returned:
\* the try/except and the None/empty tests of the function.
Draw(m, df) ==
    CASE m = "total_sales" ->
           IF HasLoc(df) /\ df.rows[1].total_sales # Null
           THEN <<"$", ToString(df.rows[1].total_sales[1])>>
           ELSE PLACEHOLDER
      [] m = "highest_hour" ->
           IF HasLoc(df) /\ df.rows[1].datetime # Null
                         /\ df.rows[1].datetime[1].valid
           THEN HourLabel(df.rows[1].datetime[1].hour)
           ELSE PLACEHOLDER
      [] m = "visitation" ->
           IF HasLoc(df) /\ df.rows[1].entries # Null
           THEN <<ToString(df.rows[1].entries[1])>>
           ELSE PLACEHOLDER
      [] m = "active_terminals" ->
           IF HasLoc(df) /\ df.rows[1].swiftpos_terminals # Null
                         /\ df.rows[1].mashgin_terminals # Null
           THEN <<ToString(df.rows[1].swiftpos_terminals[1]
                           + df.rows[1].mashgin_terminals[1])>>
           ELSE PLACEHOLDER
      [] m = "sales_bar_chart" ->
           IF df.frame /\ ~Empty(df)
                       /\ \A i \in DOMAIN df.rows : df.rows[i].datetime[1].valid
           THEN <<"bar_chart">>
           ELSE NOTHING
      [] m = "sales_by_location" ->
           IF df.frame /\ ~Empty(df) THEN <<"dataframe">> ELSE NOTHING
      [] m = "sales_by_product" ->
           IF df.frame /\ ~Empty(df) THEN <<"dataframe">> ELSE NOTHING

\* The filter a metric is called with: visitation_metric gets
\* configure_filters(date_filter), the others the cycle's filters.
MetricFilter(m) ==
    IF m = "visitation" THEN configure_filters(date_filter, NONE) ELSE filters

\* One metric function: its conn.query call and what it draws.
RunMetric(i) ==
    LET m == Metrics[i]
    IN /\ pc = m
       /\ \E out \in EngineOutcomes(m) :
            LET q == query(out)
            IN /\ queries' = Append(queries,
                     [metric |-> m, token |-> conn,
                      session_token |-> Get(session_state, "access_token"),
                      filter |-> MetricFilter(m)])
               /\ IF q.raised
                  THEN /\ pc' = "error"
                       /\ raised_at' = m
                       /\ UNCHANGED <<res, rendered>>
                  ELSE /\ res' = [metric |-> m, value |-> q.value]
                       /\ rendered' = [rendered EXCEPT ![m] = Draw(m, q.value)]
                       /\ pc' = IF i < Len(Metrics) THEN Metrics[i + 1] ELSE "done"
                       /\ UNCHANGED raised_at
       /\ UNCHANGED <<date_filter, reporting_group, filters>>
       /\ UNCHANGED <<session_state, query_params, clicked, login_response, user,
                      conn, info, refresh_res, refresh_outcome, calls,
                      logout_calls, emitted>>

TotalSales == RunMetric(1)
HighestHour == RunMetric(2)
Visitation == RunMetric(3)
ActiveTerminals == RunMetric(4)
SalesBarChart == RunMetric(5)
SalesByLocation == RunMetric(6)
SalesByProduct == RunMetric(7)

\* ---------------------------------------------------------------- reruns
\* The per-cycle part of the state when the script is run again.
CycleRestart(click) ==
    /\ pc' = "begin_login"
    /\ clicked' = click
    /\ login_response' = NoPrepare
    /\ user' = NoUser
    /\ conn' = NONE
    /\ info' = NoInfo
    /\ refresh_res' = NoRefresh
    /\ refresh_outcome' = "none"
    /\ calls' = NoCalls
    /\ logout_calls' = <<>>
    /\ emitted' = {}
    /\ date_filter' = NoDate
    /\ reporting_group' = NONE
    /\ filters' = NoFilters
    /\ queries' = <<>>
    /\ res' = NoRes
    /\ rendered' = NoRendered
    /\ raised_at' = NONE

\* A rerun in the same session (a widget interaction, the auto-refresh
\* timer, a manual rerun): session state and query parameters persist.  The
\* Logout button can be clicked only if the last cycle drew it.
Rerun ==
    /\ pc \in EndPcs
    /\ \E click \in (IF "logout_button" \in emitted THEN BOOLEAN ELSE {FALSE}) :
         CycleRestart(click)
    /\ UNCHANGED <<session_state, query_params>>

\* A page load (a redirect back from the provider, a browser reload, a typed
\* URL) opens a new session.
NewSession ==
    /\ pc \in EndPcs
    /\ session_state' = NoSession
    /\ query_params' \in QueryParams
    /\ CycleRestart(FALSE)

Next ==
    \/ BeginLogin
    \/ Callback
    \/ SessionGate
    \/ Connect
    \/ EnsureLive
    \/ Settings
    \/ BuildFilters
    \/ TotalSales
    \/ HighestHour
    \/ Visitation
    \/ ActiveTerminals
    \/ SalesBarChart
    \/ SalesByLocation
    \/ SalesByProduct
    \/ Rerun
    \/ NewSession

Spec == Init /\ [][Next]_vars

\* ---------------------------------------------------------------- configure_filters alone
\* Arguments configure_filters is applied to on its own: every date or None,
\* every group, None or the empty string.
MaxDateArg == 31
DateArgs == {NoDate} \cup {DateOf(d) : d \in 1..MaxDateArg}
GroupArgs == {NONE, ""} \cup Pills

InitFilters ==
    /\ session_state = NoSession
    /\ query_params = NoParams
    /\ pc = "configure_filters"
    /\ CycleStart(FALSE)

\* configure_filters(reporting_group=g, date=d), as the page body calls it.
CallWithGroup ==
    /\ pc = "configure_filters"
    /\ \E d \in DateArgs, g \in GroupArgs :
         /\ date_filter' = d
         /\ reporting_group' = g
         /\ filters' = configure_filters(d, g)
    /\ UNCHANGED <<pc, queries, res, rendered>>
    /\ UNCHANGED auth_vars

\* configure_filters(d), as the visitation call does: reporting_group
\* takes its default, None.
CallDateOnly ==
    /\ pc = "configure_filters"
    /\ \E d \in DateArgs :
         /\ date_filter' = d
         /\ reporting_group' = NONE
         /\ filters' = configure_filters(d, NONE)
    /\ UNCHANGED <<pc, queries, res, rendered>>
    /\ UNCHANGED auth_vars

NextFilters == CallWithGroup \/ CallDateOnly

SpecFilters == InitFilters /\ [][NextFilters]_vars

\* ---------------------------------------------------------------- claims
\* The session holds no usable token.
Unauthenticated(ss) ==
    ~Truthy(Get(ss, "access_token")) /\ ~Truthy(Get(ss, "refresh_token"))

\* The refresh of this cycle failed: an error field or an exception.
RefreshFailed == refresh_outcome \in {"error", "exception"}

\* C1: every metric query of a cycle is sent while the session holds a
\* non-empty access token, also after a failed refresh and after a click on
\* Logout.
C1_QueriesOnlyWithToken ==
    \A i \in DOMAIN queries : Truthy(queries[i].session_token)

\* C2: in a cycle whose probe failed and whose refresh failed, the logout
\* endpoint is called exactly once and the refresh endpoint exactly once.
C2_OneLogoutPerFailedRefresh ==
    (info.result = "fail" /\ RefreshFailed)
        => (Len(logout_calls) = 1 /\ calls.refresh = 1)

C4_RefreshedTokenUsed ==
    refresh_outcome = "ok" =>
        /\ info.result = "fail"
        /\ (pc = "settings" =>
              session_state = [access_token |-> refresh_res.access_token,
                               refresh_token |-> refresh_res.refresh_token])
        /\ conn = refresh_res.access_token
        /\ \A i \in DOMAIN queries : queries[i].token = refresh_res.access_token
        /\ \A i, j \in DOMAIN queries :
              queries[i].metric = queries[j].metric => i = j

\* A finished cycle whose refresh replaced a stale access token by another
\* one, with all seven metrics queried.
C4_Witness ==
    /\ pc = "done"
    /\ refresh_outcome = "ok"
    /\ info.token \in AccessTokens
    /\ info.token # refresh_res.access_token
    /\ session_state.refresh_token = refresh_res.refresh_token
    /\ Len(queries) = Len(Metrics)

\* C5: whenever logout_user has run in a cycle, both tokens are cleared, the
\* navigation to the logout URL is emitted and no exception of the logout
\* call has ended the cycle.
C5_LogoutBestEffort ==
    calls.logout_user > 0 =>
        /\ Unauthenticated(session_state)
        /\ "logout_nav" \in emitted
        /\ raised_at = NONE

\* C6: after a code exchange that returned, the session holds both tokens
\* of the response when the response has both; when it lacks either, the
\* session holds no token, no query is issued and the cycle stops at the
\* session gate.
C6_LoginRoundTrip ==
    (calls.authenticate >= 1 /\ raised_at # "callback") =>
        /\ calls.authenticate = 1
        /\ IF Truthy(user.access_token) /\ Truthy(user.refresh_token)
           THEN /\ pc = "gate" =>
                     session_state = [access_token |-> user.access_token,
                                      refresh_token |-> user.refresh_token]
                /\ pc # "stopped"
           ELSE /\ Unauthenticated(session_state)
                /\ queries = <<>>
                /\ conn = NONE
                /\ pc \in {"gate", "stopped"}

\* A callback whose response had both tokens has passed the session gate
\* with them.
C6_Witness ==
    /\ pc = "connect"
    /\ calls.authenticate = 1
    /\ Truthy(user.access_token)
    /\ session_state.access_token = user.access_token
    /\ session_state.refresh_token = user.refresh_token

\* C7: at the end of every cycle that called the authenticate endpoint, the
\* query parameters are empty.
C7_ParamsClearedAfterExchange ==
    (pc \in EndPcs /\ calls.authenticate >= 1) => query_params = NoParams

\* C8: after a prepare response without the redirect URL or without the
\* nonce, the cycle has shown the diagnostic and no redirect, holds no
\* token, has issued no query, has called prepare once and authenticate
\* never, and goes no further than the session gate.
C8_PrepareFailureHalts ==
    (/\ calls.prepare >= 1
     /\ raised_at # "begin_login"
     /\ ~(Truthy(login_response.redirect) /\ Truthy(login_response.nonce))) =>
        /\ "diagnostic" \in emitted
        /\ "redirect" \notin emitted
        /\ Unauthenticated(session_state)
        /\ queries = <<>>
        /\ calls.prepare = 1
        /\ calls.authenticate = 0
        /\ pc \in {"callback", "gate", "stopped"}

\* A cycle stopped at the gate after a prepare response that had the
\* redirect URL and no nonce.
C8_Witness ==
    /\ pc = "stopped"
    /\ calls.prepare = 1
    /\ login_response.redirect = "idp_url"
    /\ login_response.nonce = NONE
    /\ "diagnostic" \in emitted

\* The metrics the cycle has gone past.
Passed(i) == pc = "done" \/ \E j \in (i + 1)..Len(Metrics) : pc = Metrics[j]

\* The scalar metrics, drawn with st.metric.
ScalarMetrics == {"total_sales", "highest_hour", "visitation", "active_terminals"}

\* C9: no metric query ends the cycle: once the first metric is queried the
\* cycle goes through all seven, each metric passed has been queried, a
\* scalar one drawn, and a query without a result draws the placeholder (or
\* nothing, for a table or a chart).
C9_MetricFailureIsolated ==
    /\ raised_at \notin MetricNames
    /\ queries # <<>> => pc \in MetricNames \cup {"done"}
    /\ \A i \in DOMAIN Metrics :
          Passed(i) =>
             /\ queries[i].metric = Metrics[i]
             /\ Metrics[i] \in ScalarMetrics => rendered[Metrics[i]] # NOTHING
    /\ (res.metric # NONE /\ ~HasLoc(res.value)) =>
          rendered[res.metric] = IF res.metric \in ScalarMetrics
                                 THEN PLACEHOLDER ELSE NOTHING

\* A finished cycle in which the first and the third metric drew the
\* placeholder and the second, the fourth and the last drew a value.
C9_Witness ==
    /\ pc = "done"
    /\ rendered["total_sales"] = PLACEHOLDER
    /\ rendered["highest_hour"] \notin {PLACEHOLDER, NOTHING}
    /\ rendered["visitation"] = PLACEHOLDER
    /\ rendered["active_terminals"] \notin {PLACEHOLDER, NOTHING}
    /\ rendered["sales_by_location"] = NOTHING
    /\ rendered["sales_by_product"] = <<"dataframe">>

\* The field a clause is on: a clause has one key (range, term, ...).
ClauseField(c) == c[CHOOSE k \in DOMAIN c : TRUE].field

ClausesOn(f, field) ==
    {i \in DOMAIN f.bool.must : ClauseField(f.bool.must[i]) = field}

\* C10: the filter configure_filters returns has no clause on
\* reporting.reporting_group when the group is None or empty, and exactly
\* one, a term clause with the group as its value, when it is not.
C10_ReportingGroupClause ==
    filters # NoFilters =>
        LET on == ClausesOn(filters, "reporting.reporting_group")
        IN IF Truthy(reporting_group)
           THEN /\ Cardinality(on) = 1
                /\ \A i \in on :
                     filters.bool.must[i] = TermClause(reporting_group)
           ELSE on = {}

\* configure_filters has been applied to a date and the empty string.
C10_Witness ==
    /\ pc = "configure_filters"
    /\ filters # NoFilters
    /\ reporting_group = ""
    /\ Len(date_filter) > 0

\* The range clauses of a filter.
RangeClauses(f) == {i \in DOMAIN f.bool.must : "range" \in DOMAIN f.bool.must[i]}

\* C11: the filter configure_filters returns has exactly one range clause,
\* on @timestamp, whose lower and upper bound are both the date given (the
\* sentinel today/d when no date is given), in the configured time zone.
C11_OneTimeRange ==
    filters # NoFilters =>
        LET ranges == RangeClauses(filters)
            bound == IF Len(date_filter) = 0 THEN DATE_SENTINEL ELSE date_filter
        IN /\ Cardinality(ranges) = 1
           /\ ClausesOn(filters, "@timestamp") = ranges
           /\ \A i \in ranges :
                LET r == filters.bool.must[i].range
                IN /\ r.gte = r.lte
                   /\ r.gte = bound
                   /\ r.time_zone = TIME_ZONE

\* configure_filters has been applied to a date and a group, so that the
\* range clause stands beside a term clause.
C11_Witness ==
    /\ pc = "configure_filters"
    /\ Len(date_filter) > 0
    /\ Truthy(reporting_group)
    /\ Len(filters.bool.must) = 2

\* The metrics whose value is normalized from one number: the column read
\* and the text a zero is drawn as.
NormalizedMetrics == {"total_sales", "visitation"}
ZeroText(m) == IF m = "total_sales" THEN <<"$", "0">> ELSE <<"0">>
ValueCell(m, df) ==
    IF m = "total_sales" THEN df.rows[1].total_sales ELSE df.rows[1].entries

\* C12: for total sales and visitation, a missing or empty query result is
\* drawn as the no-data placeholder "-", a row with value 0 as a zero
\* ("$0", "0"), and the two texts differ.
C12_NoDataIsNotZero ==
    res.metric \in NormalizedMetrics =>
        LET m == res.metric
        IN /\ ~HasLoc(res.value) =>
                /\ rendered[m] = <<"-">>
                /\ rendered[m] # ZeroText(m)
           /\ (HasLoc(res.value) /\ ValueCell(m, res.value) = Cell(0)) =>
                /\ rendered[m] = ZeroText(m)
                /\ rendered[m] # <<"-">>

\* A cycle that drew total sales from a row with value 0 and then
\* visitation from an empty result.
C12_Witness ==
    /\ res.metric = "visitation"
    /\ res.value.frame
    /\ Empty(res.value)
    /\ rendered["total_sales"] = <<"$", "0">>
    /\ rendered["visitation"] = <<"-">>

\* The relative offset a cycle is given: the page body reads a date, a
\* group, the refresh toggle and the refresh interval, and no offset.
ExplicitOffset == NONE

\* The queries of the cycle that are not one of the seven metric queries.
ProbeQueries == {i \in DOMAIN queries : queries[i].metric \notin MetricNames}

\* C13: a cycle with an explicit offset issues no probe query for the
\* earliest event of today; a cycle without one issues exactly one, before
\* the metric queries.
C13_OneProbeWithoutOffset ==
    pc \in MetricNames \cup {"done"} =>
        IF Truthy(ExplicitOffset)
        THEN ProbeQueries = {}
        ELSE ProbeQueries = {1}

\* C14: an unauthenticated session is never stuck.  A stopped cycle that
\* called neither prepare nor authenticate leaves the session state and the
\* query parameters as they were, so the next reload runs on the same
\* inputs: it must then call prepare or exchange the code, or every later
\* reload stops silently as this one did.
C14_UnauthenticatedNotStuck ==
    (/\ pc = "stopped"
     /\ Unauthenticated(session_state)
     /\ calls.prepare = 0
     /\ calls.authenticate = 0) =>
        \/ NeedsLogin(session_state, query_params)
        \/ IsCallback(query_params)

\* C15: at the end of every render cycle the session holds both tokens or
\* neither: the access token is non-empty exactly when the refresh token is.
C15_TokensPaired ==
    pc \in EndPcs =>
        (Truthy(Get(session_state, "access_token"))
            <=> Truthy(Get(session_state, "refresh_token")))

\* A finished cycle in which a refresh replaced the pair and a click on
\* Logout then removed it.
C15_Witness ==
    /\ pc = "done"
    /\ refresh_outcome = "ok"
    /\ clicked
    /\ calls.logout_user = 1
    /\ session_state = NoSession

\* The logout() calls of the cycle that the Logout button made.  Without a
\* failed refresh the refresh block made none.  After a failed refresh the
\* session holds no token when the button is reached, so the button's calls
\* are those with an empty token; the refresh block's carry the token that
\* passed the session gate.
ButtonLogouts ==
    IF RefreshFailed
    THEN {i \in DOMAIN logout_calls : ~Truthy(logout_calls[i].token)}
    ELSE DOMAIN logout_calls

\* C16: in a cycle whose Logout button was clicked, the handler calls the
\* logout endpoint exactly once, with the access token the session held
\* before the click, clears both tokens and raises nothing, also after a
\* failed refresh in the same cycle.
C16_LogoutClickOnce ==
    (clicked /\ "logout_button" \in emitted) =>
        /\ Cardinality(ButtonLogouts) = 1
        /\ \A i \in ButtonLogouts :
              logout_calls[i].token = IF RefreshFailed THEN NONE ELSE conn
        /\ Unauthenticated(session_state)
        /\ raised_at # "settings"

====
